---- MODULE Spec2Model ----
(***************************************************************************)
(* Model of the dual-protocol relay of browsermcp:                         *)
(*   - WebSocketMCPServer (src/src/websocket-mcp-server.ts, lines 23-281)  *)
(*   - createSocketMessageSender (same file, lines 294-341)                *)
(*   - the Execution Context and the tool handlers, whose source is not    *)
(*     part of src/ and which are modelled from spec.md (sections 3, 4.3). *)
(* One action is one event-loop callback: the arrival of a frame on a      *)
(* connection, a connection's close event, a new connection, or a timer.   *)
(***************************************************************************)
EXTENDS Integers, Sequences, FiniteSets, TLC

\* ------------------------------------------------------------------ bounds
MaxConn == 3
MaxReq == 2
NumIds == 2
MaxForward == 1
MaxSock == 2
MaxTimers == 2

\* ------------------------------------------------------------ value spaces
Undef == "undefined"
NoWs == 0

Conn == 1..MaxConn
Sock == 1..MaxSock
NoSock == 0
NoTab == 0
Tab == 1
Req == 1..MaxReq

IdName == <<"m1", "m2", "m3", "m4">>
MsgIds == {IdName[i] : i \in 1..NumIds}
CtrlIds == {"1", "2"}
Payloads == {"done", "failed"}

ExtensionTypes == {"auth", "capabilities", "ping"}

\* The registry composed at start-up, in order.
snapshotTools ==
  <<"navigate", "go_back", "go_forward", "snapshot", "click", "hover",
    "type", "select_option", "press_key", "wait", "get_console_logs",
    "screenshot">>

resources == <<>>

ToolNames == {snapshotTools[i] : i \in 1..Len(snapshotTools)}

noConnectedTab == "No connected tab available"

timeoutMs == 30000

maxReconnectAttempts == 5

\* ----------------------------------------------------------- frames (input)
\* A received frame.  json = FALSE is a frame JSON.parse rejects; every other
\* field is then irrelevant.  Undef stands for an absent property.  token is
\* the token property of an auth message, absent unless WithToken sets it.
Frame(json, type, jsonrpc, id, method, hasParams, name, hasResult, payload) ==
  [json |-> json, type |-> type, jsonrpc |-> jsonrpc, id |-> id,
   method |-> method, hasParams |-> hasParams, name |-> name,
   hasResult |-> hasResult, payload |-> payload, token |-> Undef,
   hasError |-> FALSE]

WithToken(f, token) == [f EXCEPT !.token = token]

\* A frame with an error property.
WithError(f) == [f EXCEPT !.hasError = TRUE]

Tokens == {"dev-token", "wrong-token"}

Garbage == Frame(FALSE, Undef, Undef, Undef, Undef, FALSE, Undef, FALSE, Undef)

ExtFrames ==
  {Frame(TRUE, t, Undef, Undef, Undef, FALSE, Undef, FALSE, Undef) :
     t \in ExtensionTypes \cup {"action_result"}}
  \cup
  {WithToken(Frame(TRUE, "auth", Undef, Undef, Undef, FALSE, Undef, FALSE,
                   Undef), t) : t \in Tokens}

ReplyFrames ==
  {Frame(TRUE, Undef, Undef, i, Undef, FALSE, Undef, FALSE, p) :
     i \in MsgIds, p \in Payloads}

CallFrames ==
  {Frame(TRUE, Undef, "2.0", i, "tools/call", TRUE, "click", FALSE, Undef) :
     i \in CtrlIds}
  \cup
  { Frame(TRUE, Undef, "2.0", "1", "tools/call", TRUE, "drag", FALSE, Undef),
    Frame(TRUE, Undef, "2.0", "2", "tools/call", TRUE, Undef, FALSE, Undef),
    Frame(TRUE, Undef, "2.0", "1", "tools/call", FALSE, Undef, FALSE, Undef) }

MethodFrames ==
  {Frame(TRUE, Undef, "2.0", "2", m, TRUE, Undef, FALSE, Undef) :
     m \in {"tools/list", "resources/list", "resources/read", "initialize"}}

OddFrames ==
  { Frame(TRUE, Undef, "2.0", "1", Undef, FALSE, Undef, TRUE, Undef),
    Frame(TRUE, "ping", "2.0", "1", "tools/list", FALSE, Undef, FALSE, Undef),
    Frame(TRUE, Undef, Undef, "1", "tools/list", FALSE, Undef, FALSE, Undef),
    WithError(Frame(TRUE, Undef, "2.0", "2", Undef, FALSE, Undef, FALSE,
                    Undef)),
    Frame(TRUE, Undef, "2.0", Undef, "tools/list", TRUE, Undef, FALSE, Undef) }

Frames ==
  {Garbage} \cup ExtFrames \cup ReplyFrames \cup CallFrames
            \cup MethodFrames \cup OddFrames

\* ---------------------------------------------------------- frames (output)
\* What the server hands to ws.send, with the connection it is sent on.
\* message and result are sequences of strings (<<>> when absent); timestamp
\* is "now" on a frame that carries Date.now(), absent on every other.
Out(to, env, id, type, code, message, result) ==
  [to |-> to, env |-> env, id |-> id, type |-> type, code |-> code,
   message |-> message, result |-> result, timestamp |-> Undef]


NoFrame == Frame(FALSE, Undef, Undef, Undef, Undef, FALSE, Undef, FALSE, Undef)

\* ------------------------------------------------------------------- state
VARIABLES
  status,                \* per connection: "idle", "open", "closing", "closed"
  connectionType,        \* per connection: "unknown", "extension", "mcp"
  extensionConnections,  \* Set<WebSocket>
  mcpConnections,        \* Set<WebSocket>
  ctxWs,                 \* Context._ws: a connection, or NoWs
  req,                   \* the promises made by sendSocketMessage
  last                   \* the callback that just ran and what it sent

\* The browser extension's background service (MCPBackgroundService), the
\* sockets it has created, and the connection the AI application holds.
VARIABLES
  sock,                  \* per socket slot: readyState, server side, queues
  extWs,                 \* this.ws: a socket slot, or NoSock
  connectedTabId,        \* this.connectedTabId: a tab, or NoTab
  connectionStatus,      \* this.connectionStatus
  settingsToken,         \* this.settings.token
  reconnectAttempts,     \* this.reconnectAttempts
  reconnectTimers,       \* reconnection timers scheduled and not yet fired
  controller             \* the AI application's connection, or NoWs

extVars ==
  <<sock, extWs, connectedTabId, connectionStatus, settingsToken,
    reconnectAttempts, reconnectTimers, controller>>

vars ==
  <<status, connectionType, extensionConnections, mcpConnections, ctxWs,
    req, last, sock, extWs, connectedTabId, connectionStatus, settingsToken,
    reconnectAttempts, reconnectTimers, controller>>

\* One call of sendSocketMessage: its promise (state), its timer, its message
\* listener with the connection and id the listener closes over (ws, mid), and
\* the handleToolCall awaiting the promise (connection ctrl, request id cid).
\* What no closure references any more is reset: ws and mid when the listener
\* is removed, ctrl and cid when the awaiting handler has run.
FreshReq ==
  [state |-> "unused", timer |-> FALSE, listener |-> FALSE, ws |-> NoWs,
   mid |-> Undef, ctrl |-> NoWs, cid |-> Undef]

\* A socket slot of the extension: the readyState of the WebSocket object in
\* it ("free" when no live object is in it), the server's connection it is
\* attached to once the server has accepted it, whether the promise of the
\* connect() that created it is settled, the frames it has sent that the
\* server has not handled yet, and the server's frames it has not handled.
FreeSock ==
  [state |-> "free", peer |-> NoWs, settled |-> FALSE, out |-> <<>>,
   inbox |-> <<>>]

Event(ev, conn, frame, sent) ==
  [ev |-> ev, conn |-> conn, frame |-> frame, sent |-> sent]

Init ==
  /\ status = [c \in Conn |-> "idle"]
  /\ connectionType = [c \in Conn |-> "unknown"]
  /\ extensionConnections = {}
  /\ mcpConnections = {}
  /\ ctxWs = NoWs
  /\ req = [r \in Req |-> FreshReq]
  /\ last = Event("init", NoWs, NoFrame, <<>>)
  /\ sock = [s \in Sock |-> FreeSock]
  /\ extWs = NoSock
  /\ connectedTabId = NoTab
  /\ connectionStatus = FALSE
  /\ settingsToken = ""
  /\ reconnectAttempts = 0
  /\ reconnectTimers = 0
  /\ controller = NoWs

\* ------------------------------------------------------- Execution Context
hasWs == ctxWs # NoWs

\* ws.close(): starts the closing handshake; the close event comes later.
wsClose(st, ws) ==
  [st EXCEPT ![ws] = IF @ = "open" THEN "closing" ELSE @]

\* ---------------------------------------------------- classification rules
isExtensionMessage(m) == m.type \in ExtensionTypes

\* Variant: only a request counts as a controller message.
isMCPMessageRequest(m) == m.jsonrpc = "2.0" /\ m.method # Undef

isMCPMessage(m) ==
  m.jsonrpc = "2.0" /\ (m.method # Undef \/ m.hasResult \/ m.hasError)

\* Variant: a message that matches neither rule makes the connection a
\* controller.
ClassifiedTypeDefault(c, m) ==
  IF connectionType[c] = "unknown"
    THEN IF isExtensionMessage(m) THEN "extension" ELSE "mcp"
    ELSE connectionType[c]

\* Variant: the detection step runs on every message.
ClassifiedTypeEach(c, m) ==
  IF isExtensionMessage(m) THEN "extension"
  ELSE IF isMCPMessage(m) THEN "mcp"
  ELSE connectionType[c]

\* connectionType after the detection step of the message callback.
ClassifiedType(c, m) ==
  IF connectionType[c] = "unknown"
    THEN IF isExtensionMessage(m) THEN "extension"
         ELSE IF isMCPMessage(m) THEN "mcp"
         ELSE "unknown"
    ELSE connectionType[c]

\* Variant: a connection whose first message carries the wrong token is not
\* made an executor.
BecomesExtensionChecked(c, m) ==
  /\ connectionType[c] = "unknown"
  /\ ClassifiedType(c, m) = "extension"
  /\ m.token # "wrong-token"

BecomesExtension(c, m) ==
  connectionType[c] = "unknown" /\ ClassifiedType(c, m) = "extension"

\* Variant: the controller rule is tested on its own, not as the else branch
\* of the executor rule.
BecomesMCPAlso(c, m) ==
  connectionType[c] = "unknown" /\ isMCPMessage(m)

BecomesMCP(c, m) ==
  connectionType[c] = "unknown" /\ ClassifiedType(c, m) = "mcp"

\* Variant: the previous channel is left open.
ReplacedStatusKeep(c, m) == status

\* if (this.context.hasWs()) this.context.ws.close();
ReplacedStatus(c, m) ==
  IF BecomesExtension(c, m) /\ hasWs THEN wsClose(status, ctxWs) ELSE status

\* Variant: the executor handler installs the connection on every control
\* message it handles.
InstalledWsEach(c, m) ==
  IF ClassifiedType(c, m) = "extension" /\ isExtensionMessage(m)
    THEN c ELSE ctxWs

\* this.context.ws = ws;
InstalledWs(c, m) ==
  IF BecomesExtension(c, m) THEN c ELSE ctxWs

\* ------------------------------------------------------- response builders
sendMCPResponse(ws, id, result) ==
  Out(ws, "result", id, Undef, 0, <<>>, result)

sendMCPError(ws, id, code, message) ==
  Out(ws, "error", id, Undef, code, message, <<>>)

\* Variant: the catch answers with the code of an invalid request.
sendParseErrorInvalid(ws) ==
  Out(ws, "parse", Undef, Undef, -32600, <<"Invalid Request">>, <<>>)

sendParseError(ws) ==
  Out(ws, "parse", Undef, Undef, -32700, <<"Parse error">>, <<>>)

sendControl(ws, type) ==
  Out(ws, "control", Undef, type, 0, <<>>, <<>>)

sendForward(ws, mid, type) ==
  Out(ws, "forward", mid, type, 0, <<>>, <<>>)

sendPong(ws) == [sendControl(ws, "pong") EXCEPT !.timestamp = "now"]

\* ------------------------------------------------------------ JSON on the wire
\* An object is a function from the property names to values; a value is a
\* sequence of strings, <<Undef>> for a property whose value is undefined and
\* Absent for a property the object does not have.
Keys == {"jsonrpc", "id", "type", "result", "error", "payload", "timestamp"}

KeyOrder ==
  <<"jsonrpc", "id", "type", "result", "error", "payload", "timestamp">>

Absent == <<"absent">>

Object(jsonrpc, id, type, result, error, payload, timestamp) ==
  [k \in Keys |->
     CASE k = "jsonrpc" -> jsonrpc
       [] k = "id" -> id
       [] k = "type" -> type
       [] k = "result" -> result
       [] k = "error" -> error
       [] k = "payload" -> payload
       [] OTHER -> timestamp]

\* The object literal each sender hands to JSON.stringify.
Envelope(o) ==
  CASE o.env = "result" ->
         Object(<<"2.0">>, <<o.id>>, Absent, o.result, Absent, Absent, Absent)
    [] o.env = "error" ->
         Object(<<"2.0">>, <<o.id>>, Absent, Absent, o.message, Absent, Absent)
    [] o.env = "parse" ->
         Object(Absent, Absent, Absent, Absent, o.message, Absent, Absent)
    [] o.env = "control" ->
         Object(Absent, Absent, <<o.type>>, Absent, Absent, Absent,
                IF o.type = "pong" THEN <<o.timestamp>> ELSE Absent)
    [] OTHER ->
         Object(Absent, <<o.id>>, <<o.type>>, Absent, Absent, <<"args">>,
                Absent)

\* JSON.stringify: the members in property order; a property whose value is
\* undefined is left out.
RECURSIVE stringifyFrom(_, _)
stringifyFrom(obj, i) ==
  IF i > Len(KeyOrder) THEN <<>>
  ELSE (IF obj[KeyOrder[i]] \in {Absent, <<Undef>>}
          THEN <<>>
          ELSE << <<KeyOrder[i], obj[KeyOrder[i]]>> >>)
       \o stringifyFrom(obj, i + 1)

stringify(obj) == stringifyFrom(obj, 1)

\* JSON.parse: an object with exactly the members of the text.
parse(text) ==
  [k \in Keys |->
     IF \E i \in 1..Len(text) : text[i][1] = k
       THEN text[CHOOSE i \in 1..Len(text) : text[i][1] = k][2]
       ELSE Absent]

\* ------------------------------------------------- executor channel handler
\* Variant: a type the handler does not know is answered with an error.
handleExtensionMessageStrict(ws, m) ==
  CASE m.type = "auth" -> <<sendControl(ws, "auth_success")>>
    [] m.type = "capabilities" -> <<sendControl(ws, "capabilities_received")>>
    [] m.type = "ping" -> <<sendPong(ws)>>
    [] OTHER -> <<sendControl(ws, "error")>>

\* Variant: auth compares the token and refuses the one it does not expect.
handleExtensionMessageChecked(ws, m) ==
  CASE m.type = "auth" ->
         <<sendControl(ws, IF m.token = "wrong-token" THEN "auth_failed"
                                                      ELSE "auth_success")>>
    [] m.type = "capabilities" -> <<sendControl(ws, "capabilities_received")>>
    [] m.type = "ping" -> <<sendPong(ws)>>
    [] OTHER -> <<>>

handleExtensionMessage(ws, m) ==
  CASE m.type = "auth" -> <<sendControl(ws, "auth_success")>>
    [] m.type = "capabilities" -> <<sendControl(ws, "capabilities_received")>>
    [] m.type = "ping" -> <<sendPong(ws)>>
    [] OTHER -> <<>>

\* ------------------------------------------------------------ the promise
\* Variant: a completion callback that can be invoked again.
SettleAgain(rec, state) ==
  IF rec.state = "unused" THEN rec ELSE [rec EXCEPT !.state = state]

\* new Promise((resolve, reject) => ...): resolve and reject act once.
Settle(rec, state) ==
  IF rec.state = "pending" THEN [rec EXCEPT !.state = state] ELSE rec

\* ws.off('message', handleMessage)
wsOff(rec) == [rec EXCEPT !.listener = FALSE, !.ws = NoWs, !.mid = Undef]

\* Variant: the listener does not compare ids.
MatchesAny(rec, m) == rec.listener /\ m.json /\ m.id # Undef

\* The listener sendSocketMessage registers on its connection.
Matches(rec, m) == rec.listener /\ m.json /\ m.id = rec.mid

handleMessage(rec, m) ==
  IF Matches(rec, m)
    THEN Settle(wsOff([rec EXCEPT !.timer = FALSE]), "resolved")
    ELSE rec

\* Variant: the timer callback forgets to reject.
TimeoutFiredSilent(rec) == [rec EXCEPT !.timer = FALSE]

\* The callback of setTimeout(..., timeoutMs).
TimeoutFired(rec) == Settle([rec EXCEPT !.timer = FALSE], "rejected")

\* sendSocketMessage on connection ws: the state of its promise once the
\* executor of the Promise constructor has run.
sendSocketMessage(ws, mid, ctrl, cid) ==
  [state |-> "pending", timer |-> TRUE, listener |-> TRUE, ws |-> ws,
   mid |-> mid, ctrl |-> ctrl, cid |-> cid]

\* Variant: the sender is built once, on the first executor connection.
ForwardTargetFirst ==
  IF \E c \in Conn : connectionType[c] = "extension"
    THEN CHOOSE c \in Conn :
           /\ connectionType[c] = "extension"
           /\ \A d \in Conn : connectionType[d] = "extension" => c <= d
    ELSE ctxWs

\* Context.sendSocketMessage: the connection the sender is built on, and the
\* immediate failure when there is none.
ForwardTarget == ctxWs

\* Variant: the check for a current channel is missing.
NoExecutorUnchecked == FALSE

NoExecutor == ~hasWs

\* tool.handle(context, args) of an action tool: one sendSocketMessage.
ToolHandle(name, mid) ==
  IF NoExecutor THEN <<>> ELSE <<sendForward(ForwardTarget, mid, name)>>

\* ------------------------------------------------ controller protocol handler
FreeReq == {r \in Req : req[r].state = "unused"}

NextReq == CHOOSE r \in FreeReq : \A q \in FreeReq : r <= q

\* Variant: the response takes its id from the frame handled last instead of
\* the request the awaiting handler was called with.
ToolCallDoneLatest(old, new, value) ==
  IF old.state = "pending" /\ new.state = "resolved"
    THEN <<sendMCPResponse(old.ctrl, last.frame.id, value)>>
  ELSE IF old.state = "pending" /\ new.state = "rejected"
    THEN <<sendMCPError(old.ctrl, last.frame.id, -32603,
                        <<"Tool execution failed: ">> \o value)>>
  ELSE <<>>

\* Variant: a failure is reported without the message of what failed, and a
\* success without the value.
ToolCallDoneBare(old, new, value) ==
  IF old.state = "pending" /\ new.state = "resolved"
    THEN <<sendMCPResponse(old.ctrl, old.cid, <<>>)>>
  ELSE IF old.state = "pending" /\ new.state = "rejected"
    THEN <<sendMCPError(old.ctrl, old.cid, -32603, <<"Internal error">>)>>
  ELSE <<>>

\* What handleToolCall does after its await, when the promise has gone from
\* old to new with the given value (a payload, or an error message).
ToolCallDone(old, new, value) ==
  IF old.state = "pending" /\ new.state = "resolved"
    THEN <<sendMCPResponse(old.ctrl, old.cid, value)>>
  ELSE IF old.state = "pending" /\ new.state = "rejected"
    THEN <<sendMCPError(old.ctrl, old.cid, -32603,
                        <<"Tool execution failed: ">> \o value)>>
  ELSE <<>>

\* The awaiting handler is gone once it has run.
Resumed(old, new) ==
  IF old.state = "pending" /\ new.state # "pending"
    THEN [new EXCEPT !.ctrl = NoWs, !.cid = Undef]
    ELSE new

\* Variant: the list is empty unless an executor channel is current.
handleToolsListGated(ws, m) ==
  <<sendMCPResponse(ws, m.id, IF hasWs THEN snapshotTools ELSE <<>>)>>

handleToolsList(ws, m) == <<sendMCPResponse(ws, m.id, snapshotTools)>>

handleResourcesList(ws, m) == <<sendMCPResponse(ws, m.id, resources)>>

handleResourceRead(ws, m) ==
  IF ~m.hasParams
    THEN <<sendMCPError(ws, m.id, -32603, <<"Internal error">>)>>
    ELSE <<sendMCPError(ws, m.id, -32602, <<"Resource not found: ", Undef>>)>>

\* Variant: the registry lookup's result is not tested, so a name the registry
\* lacks reaches the call of the handler.
handleToolCallNoLookup(ws, m, mid) ==
  IF ~m.hasParams
    THEN <<sendMCPError(ws, m.id, -32603, <<"Internal error">>)>>
  ELSE IF NoExecutor \/ m.name \notin ToolNames
    THEN <<sendMCPError(ws, m.id, -32603,
                        <<"Tool execution failed: ", noConnectedTab>>)>>
  ELSE ToolHandle(m.name, mid)

\* Variant: handleToolCall does not catch the handler's failure, which then
\* reaches the catch of handleMCPMessage.
handleToolCallUncaught(ws, m, mid) ==
  IF ~m.hasParams
    THEN <<sendMCPError(ws, m.id, -32603, <<"Internal error">>)>>
  ELSE IF m.name \notin ToolNames
    THEN <<sendMCPError(ws, m.id, -32602, <<"Tool not found: ", m.name>>)>>
  ELSE IF NoExecutor
    THEN <<sendMCPError(ws, m.id, -32603, <<"Internal error">>)>>
  ELSE ToolHandle(m.name, mid)

\* handleToolCall up to its await; mid is the id Math.random yields.
handleToolCall(ws, m, mid) ==
  IF ~m.hasParams
    THEN <<sendMCPError(ws, m.id, -32603, <<"Internal error">>)>>
  ELSE IF m.name \notin ToolNames
    THEN <<sendMCPError(ws, m.id, -32602, <<"Tool not found: ", m.name>>)>>
  ELSE IF NoExecutor
    THEN <<sendMCPError(ws, m.id, -32603,
                        <<"Tool execution failed: ", noConnectedTab>>)>>
  ELSE ToolHandle(m.name, mid)

\* Frame m on connection c is a tools/call that leaves a promise of
\* sendSocketMessage pending.
Forwards(c, m) ==
  /\ m.json
  /\ ClassifiedType(c, m) = "mcp"
  /\ m.method = "tools/call"
  /\ m.hasParams
  /\ m.name \in ToolNames
  /\ ~NoExecutor

\* Variant: the default arm reports a failure of the server, not an unknown
\* method.
handleMCPMessageInternal(ws, m, mid) ==
  CASE m.method = "tools/list" -> handleToolsList(ws, m)
    [] m.method = "tools/call" -> handleToolCall(ws, m, mid)
    [] m.method = "resources/list" -> handleResourcesList(ws, m)
    [] m.method = "resources/read" -> handleResourceRead(ws, m)
    [] OTHER -> <<sendMCPError(ws, m.id, -32603, <<"Internal error">>)>>

\* Variant: the switch has no default arm.
handleMCPMessageNoDefault(ws, m, mid) ==
  CASE m.method = "tools/list" -> handleToolsList(ws, m)
    [] m.method = "tools/call" -> handleToolCall(ws, m, mid)
    [] m.method = "resources/list" -> handleResourcesList(ws, m)
    [] m.method = "resources/read" -> handleResourceRead(ws, m)
    [] OTHER -> <<>>

handleMCPMessage(ws, m, mid) ==
  CASE m.method = "tools/list" -> handleToolsList(ws, m)
    [] m.method = "tools/call" -> handleToolCall(ws, m, mid)
    [] m.method = "resources/list" -> handleResourcesList(ws, m)
    [] m.method = "resources/read" -> handleResourceRead(ws, m)
    [] OTHER -> <<sendMCPError(ws, m.id, -32601,
                               <<"Method not found: ", m.method>>)>>

\* ------------------------------------------------------------------ actions
RECURSIVE Continuations(_, _, _, _)
Continuations(old, new, value, r) ==
  IF r > MaxReq THEN <<>>
  ELSE ToolCallDone(old[r], new[r], value)
         \o Continuations(old, new, value, r + 1)

\* wss.on('connection'): handleConnection registers the callbacks.
Connect(c) ==
  /\ status[c] = "idle"
  /\ \A d \in Conn : d < c => status[d] # "idle"
  /\ status' = [status EXCEPT ![c] = "open"]
  /\ last' = Event("connection", c, NoFrame, <<>>)
  /\ UNCHANGED <<connectionType, extensionConnections, mcpConnections,
                 ctxWs, req>>

\* Variant: every listener sees the message, whichever connection it came on.
ListenedAny(c, m) == [r \in Req |-> handleMessage(req[r], m)]

\* The promises after every listener registered on connection c has seen m.
Listened(c, m) ==
  [r \in Req |-> IF req[r].ws = c THEN handleMessage(req[r], m) ELSE req[r]]

\* What the router's message callback sends for a frame that parsed.
Routed(c, m, mid) ==
  CASE ClassifiedType(c, m) = "extension" -> handleExtensionMessage(c, m)
    [] ClassifiedType(c, m) = "mcp" -> handleMCPMessage(c, m, mid)
    [] OTHER -> <<>>

\* ws.on('message'): one frame m arrives on connection c.
OnMessage(c, m, mid) ==
  /\ status[c] \in {"open", "closing"}
  /\ IF ~m.json
       THEN /\ last' = Event("message", c, m, <<sendParseError(c)>>)
            /\ UNCHANGED <<status, connectionType, extensionConnections,
                           mcpConnections, ctxWs, req>>
       ELSE LET fw == Forwards(c, m)
                heard == Listened(c, m)
                after == [r \in Req |-> Resumed(req[r], heard[r])]
            IN  /\ fw => FreeReq # {}
                /\ connectionType' =
                     [connectionType EXCEPT ![c] = ClassifiedType(c, m)]
                /\ extensionConnections' =
                     IF BecomesExtension(c, m)
                       THEN extensionConnections \cup {c}
                       ELSE extensionConnections
                /\ mcpConnections' =
                     IF BecomesMCP(c, m)
                       THEN mcpConnections \cup {c}
                       ELSE mcpConnections
                /\ status' = ReplacedStatus(c, m)
                /\ ctxWs' = InstalledWs(c, m)
                /\ req' =
                     IF fw
                       THEN [after EXCEPT ![NextReq] =
                               sendSocketMessage(ForwardTarget, mid, c, m.id)]
                       ELSE after
                /\ last' = Event("message", c, m,
                                 Routed(c, m, mid)
                                   \o Continuations(req, heard,
                                                    <<m.payload>>, 1))

\* ws.on('close')
\* Variant: a close callback that leaves the registries alone.
DeletedNot(set, c) == set

\* Set.delete(ws) of the close callback.
Deleted(set, c) == set \ {c}

\* Variant: a close callback that never clears the slot.
ClearedWsNever(c) == ctxWs

\* Variant: a close callback that clears the slot whichever connection closed.
ClearedWsAlways(c) == NoWs

\* The slot after the close callback of c: cleared only when c is the
\* connection it holds.
ClearedWs(c) == IF hasWs /\ ctxWs = c THEN NoWs ELSE ctxWs

OnClose(c) ==
  /\ status[c] \in {"open", "closing"}
  /\ status' = [status EXCEPT ![c] = "closed"]
  /\ extensionConnections' = Deleted(extensionConnections, c)
  /\ mcpConnections' = Deleted(mcpConnections, c)
  /\ ctxWs' = ClearedWs(c)
  /\ last' = Event("close", c, NoFrame, <<>>)
  /\ UNCHANGED <<connectionType, req>>

\* Variant: the connection has no 'error' listener, so the event is thrown
\* and ends the process, and with it every connection.
ErrorStatusFatal(c) ==
  [d \in Conn |-> IF status[d] \in {"open", "closing"} THEN "closed"
                                                       ELSE status[d]]

\* The connections after the error callback of c, which only logs.
ErrorStatus(c) == status

\* ws.on('error')
OnError(c) ==
  /\ status[c] \in {"open", "closing"}
  /\ status' = ErrorStatus(c)
  /\ last' = Event("error", c, NoFrame, <<>>)
  /\ UNCHANGED <<connectionType, extensionConnections, mcpConnections,
                 ctxWs, req>>

\* The timer of promise r fires.
TimerFire(r) ==
  /\ req[r].timer
  /\ req' = [req EXCEPT ![r] = Resumed(req[r], TimeoutFired(req[r]))]
  /\ last' = Event("timeout", NoWs, NoFrame,
                   ToolCallDone(req[r], TimeoutFired(req[r]),
                                <<"Message timeout">>))
  /\ UNCHANGED <<status, connectionType, extensionConnections,
                 mcpConnections, ctxWs>>

\* getConnectionStats(): a read of the two sets.
getConnectionStats ==
  [extensionConnections |-> Cardinality(extensionConnections),
   mcpConnections |-> Cardinality(mcpConnections),
   totalConnections |-> Cardinality(extensionConnections)
                          + Cardinality(mcpConnections)]

\* ------------------------------------------------------------ environments
\* Math.random is drawn only when a request is forwarded.
Draws(c, m, mid) == Forwards(c, m) \/ mid = IdName[1]

Forwarded == Req \ FreeReq

\* The open scenario: any peer sends any frame on any connection at any
\* time; the controllers have at most MaxForward calls forwarded.
Next ==
  \/ \E c \in Conn : Connect(c) /\ UNCHANGED extVars
  \/ \E c \in Conn, m \in Frames, mid \in MsgIds :
       /\ Draws(c, m, mid)
       /\ Forwards(c, m) => Cardinality(Forwarded) < MaxForward
       /\ OnMessage(c, m, mid)
       /\ UNCHANGED extVars
  \/ \E c \in Conn : OnClose(c) /\ UNCHANGED extVars
  \/ \E c \in Conn : OnError(c) /\ UNCHANGED extVars
  \/ \E r \in Req : TimerFire(r) /\ UNCHANGED extVars

Spec == Init /\ [][Next]_vars

\* ------------------------------------------------------------- shutdown
\* Variant: the teardown closes every connection the server has accepted.
closeEachEvery(st, set) ==
  [c \in Conn |-> IF st[c] = "open" THEN "closing" ELSE st[c]]

\* One of the two loops of close(): ws.close() on every member of a role set.
closeEach(st, set) ==
  [c \in Conn |-> IF c \in set /\ st[c] = "open" THEN "closing" ELSE st[c]]

\* The lifecycle close of the execution context: it closes the executor
\* channel it holds, if any.
contextClose(st) == IF hasWs THEN wsClose(st, ctxWs) ELSE st

\* close(): both loops, then the listening socket stops accepting (sockets
\* already accepted are left to finish on their own), then the context's
\* close.  The signal handler that calls it exits the process right after.
close ==
  /\ status' = contextClose(closeEach(closeEach(status, extensionConnections),
                                      mcpConnections))
  /\ last' = Event("shutdown", NoWs, NoFrame, <<>>)
  /\ UNCHANGED <<connectionType, extensionConnections, mcpConnections,
                 ctxWs, req>>

Running == last.ev # "shutdown"

ShutdownNext ==
  \/ Running /\ Next
  \/ Running /\ close /\ UNCHANGED extVars

ShutdownSpec == Init /\ [][ShutdownNext]_vars

\* Timers that are armed do fire.
Fairness == \A r \in Req : WF_vars(TimerFire(r) /\ UNCHANGED extVars)

LiveSpec == Spec /\ Fairness

\* The relay scenario: every peer speaks its own protocol (an extension opens
\* with ping and then answers forwarded requests, a controller opens with
\* tools/list and then calls click), with up to MaxReq calls forwarded.
Ping == Frame(TRUE, "ping", Undef, Undef, Undef, FALSE, Undef, FALSE, Undef)

ToolsList ==
  Frame(TRUE, Undef, "2.0", "2", "tools/list", TRUE, Undef, FALSE, Undef)

ClickFrames ==
  {Frame(TRUE, Undef, "2.0", i, "tools/call", TRUE, "click", FALSE, Undef) :
     i \in CtrlIds}

RelayFrames(c) ==
  CASE connectionType[c] = "unknown" -> {Ping, ToolsList}
    [] connectionType[c] = "extension" -> ReplyFrames
    [] OTHER -> ClickFrames

RelayNext ==
  \/ \E c \in Conn : Connect(c) /\ UNCHANGED extVars
  \/ \E c \in Conn : \E m \in RelayFrames(c), mid \in MsgIds :
       /\ Draws(c, m, mid)
       /\ OnMessage(c, m, mid)
       /\ UNCHANGED extVars
  \/ \E c \in Conn : OnClose(c) /\ UNCHANGED extVars
  \/ \E c \in Conn : OnError(c) /\ UNCHANGED extVars
  \/ \E r \in Req : TimerFire(r) /\ UNCHANGED extVars

RelaySpec == Init /\ [][RelayNext]_vars

RelayLiveSpec == RelaySpec /\ Fairness

TypeOK ==
  /\ status \in [Conn -> {"idle", "open", "closing", "closed"}]
  /\ connectionType \in [Conn -> {"unknown", "extension", "mcp"}]
  /\ extensionConnections \subseteq Conn
  /\ mcpConnections \subseteq Conn
  /\ ctxWs \in Conn \cup {NoWs}
  /\ \A r \in Req : req[r].state \in {"unused", "pending", "resolved", "rejected"}


\* ======================================================= browser extension
\* The frames the background service sends.
Auth(token) ==
  WithToken(Frame(TRUE, "auth", Undef, Undef, Undef, FALSE, Undef, FALSE,
                  Undef), token)

Capabilities ==
  Frame(TRUE, "capabilities", Undef, Undef, Undef, FALSE, Undef, FALSE, Undef)

ActionResult ==
  Frame(TRUE, "action_result", Undef, Undef, Undef, FALSE, Undef, FALSE,
        Undef)

Pong == Frame(TRUE, "pong", Undef, Undef, Undef, FALSE, Undef, FALSE, Undef)

\* new WebSocket(wsUrl)
NewSock == [FreeSock EXCEPT !.state = "connecting"]

NewSlot ==
  CHOOSE s \in Sock :
    /\ sock[s].state = "free"
    /\ \A t \in Sock : sock[t].state = "free" => s <= t

\* WebSocket.close() of the browser on socket w.
closeSock(sk, w) ==
  [sk EXCEPT ![w].state = CASE @ = "connecting" -> "aborting"
                            [] @ = "open" -> "closing"
                            [] OTHER -> @]

\* this.ws.send throws when this.ws is null or still connecting.
Throws(sk, w) == w = NoSock \/ sk[w].state = "connecting"

\* this.ws.send(frames): queued on an open socket, discarded on any other.
wsSend(sk, w, frames) ==
  IF w # NoSock /\ sk[w].state = "open"
    THEN [sk EXCEPT ![w].out = @ \o frames]
    ELSE sk

\* What onopen sends.
OpeningFrames ==
  IF settingsToken # ""
    THEN <<Auth(settingsToken), Capabilities>>
    ELSE <<Capabilities>>

\* connect(tabId)
connect(tabId) ==
  IF connectionStatus
    THEN UNCHANGED <<sock, extWs, connectedTabId>>
    ELSE /\ \E s \in Sock : sock[s].state = "free"
         /\ connectedTabId' = tabId
         /\ sock' = [sock EXCEPT ![NewSlot] = NewSock]
         /\ extWs' = NewSlot

\* The popup asks to connect the tab.
UserConnect ==
  /\ connect(Tab)
  /\ UNCHANGED <<connectionStatus, settingsToken, reconnectAttempts,
                 reconnectTimers>>

\* disconnect(): asked by the popup, or the connected tab was removed.
disconnect ==
  /\ sock' = IF extWs # NoSock THEN closeSock(sock, extWs) ELSE sock
  /\ extWs' = NoSock
  /\ connectionStatus' = FALSE
  /\ connectedTabId' = NoTab
  /\ reconnectAttempts' = 0
  /\ UNCHANGED <<settingsToken, reconnectTimers>>

\* chrome.storage.onChanged
SettingsChanged(t) ==
  /\ t # settingsToken
  /\ settingsToken' = t
  /\ UNCHANGED <<sock, extWs, connectedTabId, connectionStatus,
                 reconnectAttempts, reconnectTimers>>

\* this.ws.onopen of socket s, once the server has accepted it.
onopen(s) ==
  /\ sock[s].state = "connecting"
  /\ sock[s].peer # NoWs
  /\ connectionStatus' = TRUE
  /\ reconnectAttempts' = 0
  /\ LET opened == [sock EXCEPT ![s].state = "open"]
     IN  sock' = IF Throws(opened, extWs)
                   THEN opened
                   ELSE [wsSend(opened, extWs, OpeningFrames)
                           EXCEPT ![s].settled = TRUE]
  /\ UNCHANGED <<extWs, connectedTabId, settingsToken, reconnectTimers>>

\* The 10-second timer of connect(): it settles the promise and nothing else.
ConnectTimeout(s) ==
  /\ sock[s].state \in {"connecting", "aborting"}
  /\ ~sock[s].settled
  /\ sock' = [sock EXCEPT ![s].settled = TRUE]
  /\ UNCHANGED <<extWs, connectedTabId, connectionStatus, settingsToken,
                 reconnectAttempts, reconnectTimers>>

\* The condition of handleDisconnection for scheduling a reconnection.
Schedules ==
  connectedTabId # NoTab /\ reconnectAttempts < maxReconnectAttempts

\* this.ws.onclose of socket s (after onerror when the socket never opened):
\* handleDisconnection().  The socket object is dead and its slot is free.
onclose(s) ==
  /\ sock[s].state # "free"
  /\ Schedules => reconnectTimers < MaxTimers
  /\ sock' = [sock EXCEPT ![s] = FreeSock]
  /\ connectionStatus' = FALSE
  /\ reconnectTimers' = IF Schedules THEN reconnectTimers + 1
                                     ELSE reconnectTimers
  /\ UNCHANGED <<extWs, connectedTabId, settingsToken, reconnectAttempts>>

\* The callback of the timer handleDisconnection scheduled.
ReconnectFire ==
  /\ reconnectTimers > 0
  /\ reconnectTimers' = reconnectTimers - 1
  /\ reconnectAttempts' = reconnectAttempts + 1
  /\ connect(connectedTabId)
  /\ UNCHANGED <<connectionStatus, settingsToken>>

\* The type property of a frame of the server, as JSON.parse returns it.
TypeOf(o) == parse(stringify(Envelope(o)))["type"]

\* handleServerMessage(data): the frames it sends with this.ws.send.
handleServerMessage(o) ==
  CASE TypeOf(o) = <<"execute">> ->
         IF connectedTabId = NoTab THEN <<>> ELSE <<ActionResult>>
    [] TypeOf(o) = <<"ping">> -> <<Pong>>
    [] OTHER -> <<>>

\* this.ws.onmessage of socket s.
onmessage(s) ==
  /\ sock[s].state \in {"open", "closing"}
  /\ sock[s].inbox # <<>>
  /\ sock' = wsSend([sock EXCEPT ![s].inbox = Tail(@)], extWs,
                    handleServerMessage(Head(sock[s].inbox)))
  /\ UNCHANGED <<extWs, connectedTabId, connectionStatus, settingsToken,
                 reconnectAttempts, reconnectTimers>>

\* ------------------------------------------------- extension and server
serverVars ==
  <<status, connectionType, extensionConnections, mcpConnections, ctxWs,
    req, last>>

\* The frames the server has just sent reach the sockets attached to the
\* connections they were sent on, when those connections are open.
Delivered(sk, sent) ==
  [t \in Sock |->
     IF sk[t].state \in {"open", "closing"} /\ sk[t].peer # NoWs
       THEN [sk[t] EXCEPT !.inbox =
               @ \o SelectSeq(sent, LAMBDA o : /\ o.to = sk[t].peer
                                               /\ status'[o.to] = "open")]
       ELSE sk[t]]

\* The server accepts the connection of socket s.
Accept(s) ==
  /\ sock[s].state = "connecting"
  /\ sock[s].peer = NoWs
  /\ \E c \in Conn :
       /\ Connect(c)
       /\ sock' = [sock EXCEPT ![s].peer = c]
  /\ UNCHANGED <<extWs, connectedTabId, connectionStatus, settingsToken,
                 reconnectAttempts, reconnectTimers, controller>>

\* The server handles the oldest frame socket s has sent.
ServerReceive(s) ==
  /\ sock[s].out # <<>>
  /\ sock[s].peer # NoWs
  /\ OnMessage(sock[s].peer, Head(sock[s].out), IdName[1])
  /\ sock' = Delivered([sock EXCEPT ![s].out = Tail(@)], last'.sent)
  /\ UNCHANGED <<extWs, connectedTabId, connectionStatus, settingsToken,
                 reconnectAttempts, reconnectTimers, controller>>

\* The AI application connects, once.
ControllerConnect ==
  /\ controller = NoWs
  /\ \E c \in Conn : Connect(c) /\ controller' = c
  /\ UNCHANGED <<sock, extWs, connectedTabId, connectionStatus,
                 settingsToken, reconnectAttempts, reconnectTimers>>

\* The AI application lists the tools or calls click.
ControllerSend(m, mid) ==
  /\ controller # NoWs
  /\ Draws(controller, m, mid)
  /\ Forwards(controller, m) => Cardinality(Forwarded) < MaxForward
  /\ OnMessage(controller, m, mid)
  /\ sock' = Delivered(sock, last'.sent)
  /\ UNCHANGED <<extWs, connectedTabId, connectionStatus, settingsToken,
                 reconnectAttempts, reconnectTimers, controller>>

\* No frame is waiting to be handled on either side.
Quiet == \A s \in Sock : sock[s].out = <<>> /\ sock[s].inbox = <<>>

ControllerFrames ==
  {ToolsList,
   Frame(TRUE, Undef, "2.0", "1", "tools/call", TRUE, "click", FALSE, Undef)}

\* The life of the extension's connection: the user connects and disconnects,
\* the server accepts a socket or not, sockets fail or drop at any time, and
\* the timers fire.  What the server does with the frames it is sent plays no
\* part here.
ExtNext ==
  \/ UserConnect /\ UNCHANGED serverVars /\ UNCHANGED controller
  \/ disconnect /\ UNCHANGED serverVars /\ UNCHANGED controller
  \/ \E s \in Sock : Accept(s)
  \/ \E s \in Sock : onopen(s) /\ UNCHANGED serverVars /\ UNCHANGED controller
  \/ \E s \in Sock :
       ConnectTimeout(s) /\ UNCHANGED serverVars /\ UNCHANGED controller
  \/ \E s \in Sock : onclose(s) /\ UNCHANGED serverVars /\ UNCHANGED controller
  \/ ReconnectFire /\ UNCHANGED serverVars /\ UNCHANGED controller

ExtSpec == Init /\ [][ExtNext]_vars

\* The round trip: the user connects the extension, the AI application
\* connects and calls, and no connection drops.  A frame takes far less than
\* timeoutMs to be handled, so the timer of a forwarded request fires only
\* when no frame is waiting.
RoundTripNext ==
  \/ UserConnect /\ UNCHANGED serverVars /\ UNCHANGED controller
  \/ \E t \in {"", "dev-token"} :
       SettingsChanged(t) /\ UNCHANGED serverVars /\ UNCHANGED controller
  \/ \E s \in Sock : Accept(s)
  \/ \E s \in Sock : onopen(s) /\ UNCHANGED serverVars /\ UNCHANGED controller
  \/ \E s \in Sock :
       onmessage(s) /\ UNCHANGED serverVars /\ UNCHANGED controller
  \/ \E s \in Sock : ServerReceive(s)
  \/ ControllerConnect
  \/ \E m \in ControllerFrames, mid \in MsgIds : ControllerSend(m, mid)
  \/ \E r \in Req : Quiet /\ TimerFire(r) /\ UNCHANGED extVars

RoundTripSpec == Init /\ [][RoundTripNext]_vars


\* ================================================================== claims
\* The callback that has just run handled a frame that parsed.
Handled == last.ev = "message" /\ last.frame.json

Sent(i) == last.sent[i]

SentIdx == 1..Len(last.sent)

\* A success or error response to request id is among what was just sent on c.
Answered(c, id) ==
  \E i \in SentIdx :
    /\ Sent(i).to = c
    /\ Sent(i).env \in {"result", "error"}
    /\ Sent(i).id = id

\* ---------------------------------------------------------------------- C1
\* C1: every open connection classified as executor is the one the context
\* holds (so at most one is current), and whenever a connection is
\* classified as executor while another is current, it becomes the current
\* one and a close has been issued on the other.
C1_SingleCurrent ==
  \A c \in Conn :
    connectionType[c] = "extension" /\ status[c] = "open" => ctxWs = c

C1_Replaces ==
  \A c \in Conn :
    connectionType[c] = "unknown" /\ connectionType'[c] = "extension"
      => /\ ctxWs' = c
         /\ hasWs => status'[ctxWs] \in {"closing", "closed"}

C1_Thm == []C1_SingleCurrent /\ [][C1_Replaces]_vars

C1_Witness ==
  \E a, b \in Conn :
    /\ a # b
    /\ connectionType[a] = "extension" /\ status[a] = "closing"
    /\ connectionType[b] = "extension" /\ status[b] = "open"
    /\ ctxWs = b
    /\ Handled /\ last.conn = b /\ isExtensionMessage(last.frame)

\* ---------------------------------------------------------------------- C2
\* C2: a forwarded request is sent on, and its listener registered on, the
\* connection the context holds when the tools/call is handled; that
\* connection is open and classified as executor, so it is never one that
\* has been replaced.
C2_Routed ==
  /\ \A i \in 1..Len(last'.sent) :
       last'.sent[i].env = "forward"
         => /\ hasWs
            /\ last'.sent[i].to = ctxWs
            /\ ctxWs' = ctxWs
            /\ status'[ctxWs] = "open"
            /\ connectionType'[ctxWs] = "extension"
  /\ \A r \in Req :
       req[r].state = "unused" /\ req'[r].state = "pending"
         => /\ req'[r].ws = ctxWs
            /\ \E i \in 1..Len(last'.sent) :
                 /\ last'.sent[i].env = "forward"
                 /\ last'.sent[i].to = ctxWs
                 /\ last'.sent[i].id = req'[r].mid

C2_Thm == [][C2_Routed]_vars

C2_Witness ==
  \E a, b \in Conn, r \in Req :
    /\ a # b
    /\ connectionType[a] = "extension" /\ status[a] = "closing"
    /\ ctxWs = b
    /\ req[r].state = "pending" /\ req[r].ws = b
    /\ Handled /\ last.frame.method = "tools/call"
    /\ \E i \in SentIdx : Sent(i).env = "forward" /\ Sent(i).to = b

\* ---------------------------------------------------------------------- C3
\* C3: a classified connection keeps its role for ever, the context never
\* holds a connection that is not classified as executor, and what a
\* classified connection receives is answered in its role's protocol only
\* (control replies on an executor connection, responses on a controller
\* connection).
C3_RoleKept ==
  \A c \in Conn :
    connectionType[c] # "unknown" => connectionType'[c] = connectionType[c]

C3_SlotIsExecutor == hasWs => connectionType[ctxWs] = "extension"

C3_Dispatch ==
  (last'.ev = "message" /\ last'.frame.json)
    => \A i \in 1..Len(last'.sent) :
         last'.sent[i].to = last'.conn
           => /\ connectionType[last'.conn] = "extension"
                   => last'.sent[i].env = "control"
              /\ connectionType[last'.conn] = "mcp"
                   => last'.sent[i].env \in {"result", "error"}

C3_Thm ==
  []C3_SlotIsExecutor /\ [][C3_RoleKept]_vars /\ [][C3_Dispatch]_vars

C3_Witness ==
  /\ Handled
  /\ connectionType[last.conn] = "mcp"
  /\ last.frame = Ping
  /\ ctxWs # last.conn
  /\ \E i \in SentIdx : Sent(i).env = "error" /\ Sent(i).code = -32601

\* ---------------------------------------------------------------------- C4
\* C4: a pending request does not stay pending for ever (its timer rejects
\* it unless a response resolved it first), the timer's rejection is a
\* "Message timeout" failure, and a rejected request stays rejected whatever
\* arrives afterwards.
Pending(r) == req[r].state = "pending"

Settled(r) == req[r].state \in {"resolved", "rejected"}

C4_TimesOut == \A r \in Req : Pending(r) ~> Settled(r)

C4_TimerRejects ==
  \A r \in Req :
    (Pending(r) /\ last'.ev = "timeout" /\ req'[r] # req[r])
      => /\ req'[r].state = "rejected"
         /\ \E i \in 1..Len(last'.sent) :
              /\ last'.sent[i].env = "error"
              /\ last'.sent[i].message =
                   <<"Tool execution failed: ", "Message timeout">>

C4_StaysRejected ==
  \A r \in Req : req[r].state = "rejected" => req'[r].state = "rejected"

C4_Thm ==
  C4_TimesOut /\ [][C4_TimerRejects]_vars /\ [][C4_StaysRejected]_vars

\* A response with the id of a request that had timed out has arrived: its
\* listener, which the timeout left registered, is gone.
C4_Witness ==
  \E r \in Req :
    /\ req[r].state = "rejected"
    /\ ~req[r].listener
    /\ Handled /\ last.frame \in ReplyFrames

\* ---------------------------------------------------------------------- C5
\* C5: a request has a message listener registered exactly while it is
\* pending.
C5_NoLeak == \A r \in Req : req[r].listener <=> Pending(r)

\* ---------------------------------------------------------------------- C6
\* C6: a settled request never changes state again (resolved stays
\* resolved, rejected stays rejected); a response resolves and only the
\* timer rejects; and the handlers awaiting requests send one response per
\* request, at the step that settles it.
C6_Terminal ==
  \A r \in Req :
    /\ Settled(r) => req'[r].state = req[r].state
    /\ (Pending(r) /\ req'[r].state # "pending")
         => /\ Settled(r)'
            /\ \E i \in 1..Len(last'.sent) :
                 /\ last'.sent[i].to = req[r].ctrl
                 /\ last'.sent[i].id = req[r].cid
            /\ req'[r].state = "resolved" <=> last'.ev = "message"
            /\ req'[r].state = "rejected" <=> last'.ev = "timeout"
            /\ ~req'[r].timer

\* The responses that come from awaiting handlers, not from the frame's own
\* handler, are as many as the requests that settle in the step.
C6_OneResponse ==
  Cardinality({i \in 1..Len(last'.sent) :
                 /\ last'.sent[i].env \in {"result", "error"}
                 /\ last'.ev = "timeout" \/ last'.sent[i].to # last'.conn})
    = Cardinality({r \in Req : Pending(r) /\ req'[r].state # "pending"})

C6_Thm == [][C6_Terminal /\ C6_OneResponse]_vars

\* A response arrives on the executor connection after the only request was
\* resolved (a duplicate) and settles nothing.
C6_Witness ==
  \E r \in Req :
    /\ req[r].state = "resolved"
    /\ \A q \in Req : q # r => req[q].state = "unused"
    /\ Handled /\ last.frame \in ReplyFrames
    /\ connectionType[last.conn] = "extension"
    /\ last.sent = <<>>

\* ---------------------------------------------------------------------- C7
\* C7: when a frame arrives on a connection, every pending request whose
\* listener is on that connection and whose id equals the frame's id is
\* resolved and answered with the frame's payload, and every other pending
\* request stays pending.
C7_ResolvesMatching ==
  (last'.ev = "message" /\ last'.frame.json)
    => \A r \in Req :
         Pending(r)
           => IF req[r].ws = last'.conn /\ req[r].mid = last'.frame.id
                THEN /\ req'[r].state = "resolved"
                     /\ \E i \in 1..Len(last'.sent) :
                          /\ last'.sent[i].to = req[r].ctrl
                          /\ last'.sent[i].env = "result"
                          /\ last'.sent[i].id = req[r].cid
                          /\ last'.sent[i].result = <<last'.frame.payload>>
                ELSE req'[r] = req[r]

C7_Thm == [][C7_ResolvesMatching]_vars

\* The second of two requests outstanding on one connection is resolved
\* first.
C7_Witness ==
  /\ MaxReq >= 2
  /\ req[1].state = "pending"
  /\ req[2].state = "resolved"
  /\ Handled /\ last.frame \in ReplyFrames
  /\ req[1].ws = last.conn
  /\ req[1].mid # last.frame.id
  /\ Len(last.sent) = 1 /\ Sent(1).env = "result"

\* ---------------------------------------------------------------------- C8
\* A tools/call for a registered tool is handled on a controller connection
\* while the context holds no connection.
CallWithoutExecutor ==
  /\ last'.ev = "message" /\ last'.frame.json
  /\ connectionType'[last'.conn] = "mcp"
  /\ last'.frame.method = "tools/call"
  /\ last'.frame.hasParams
  /\ last'.frame.name \in ToolNames
  /\ ~hasWs

\* C8: sending to the executor while no channel is current fails at once:
\* nothing is forwarded, no timer is armed, no listener and no pending
\* request is registered, and the failure is the no-connected-tab one.
C8_FailsAtOnce ==
  CallWithoutExecutor
    => /\ req' = req
       /\ \A i \in 1..Len(last'.sent) : last'.sent[i].env # "forward"
       /\ \E i \in 1..Len(last'.sent) :
            /\ last'.sent[i].env = "error"
            /\ last'.sent[i].message[Len(last'.sent[i].message)]
                 = noConnectedTab

C8_Thm == [][C8_FailsAtOnce]_vars

C8_Witness ==
  /\ Handled
  /\ connectionType[last.conn] = "mcp"
  /\ last.frame.method = "tools/call"
  /\ last.frame.name = "click"
  /\ ~hasWs
  /\ extensionConnections = {}
  /\ \A r \in Req : req[r].state = "unused"
  /\ Len(last.sent) = 1

\* ---------------------------------------------------------------------- C9
\* C9: that call is answered, on the connection it came from, with exactly
\* one error envelope carrying the request's id, code -32603 and the
\* no-connected-tab message.
C9_ErrorEnvelope ==
  CallWithoutExecutor
    => /\ Len(last'.sent) = 1
       /\ last'.sent[1].to = last'.conn
       /\ last'.sent[1].env = "error"
       /\ last'.sent[1].id = last'.frame.id
       /\ last'.sent[1].code = -32603
       /\ last'.sent[1].message
            = <<"Tool execution failed: ", "No connected tab available">>

C9_Thm == [][C9_ErrorEnvelope]_vars

\* The executor has gone (its close was handled) when the call arrives.
C9_Witness ==
  /\ Handled
  /\ connectionType[last.conn] = "mcp"
  /\ last.frame.method = "tools/call"
  /\ last.frame.name = "click"
  /\ last.frame.id = "2"
  /\ ~hasWs
  /\ \E c \in Conn : connectionType[c] = "extension" /\ status[c] = "closed"
  /\ Len(last.sent) = 1 /\ Sent(1).code = -32603 /\ Sent(1).id = "2"

\* --------------------------------------------------------------------- C10
\* C10: a frame with an id handled on a controller connection is answered in
\* the same callback with a response carrying its id, or leaves a forwarded
\* request pending for that connection and id; a pending request does not
\* stay pending; and when it settles, a response with that id is sent on
\* that connection.
C10_AnsweredOrPending ==
  (/\ last'.ev = "message" /\ last'.frame.json
   /\ connectionType'[last'.conn] = "mcp"
   /\ last'.frame.id # Undef)
    => \/ \E i \in 1..Len(last'.sent) :
            /\ last'.sent[i].to = last'.conn
            /\ last'.sent[i].env \in {"result", "error"}
            /\ last'.sent[i].id = last'.frame.id
       \/ \E r \in Req :
            /\ req[r].state = "unused" /\ req'[r].state = "pending"
            /\ req'[r].ctrl = last'.conn
            /\ req'[r].cid = last'.frame.id

C10_AnsweredWhenSettled ==
  \A r \in Req :
    (Pending(r) /\ req'[r].state # "pending")
      => \E i \in 1..Len(last'.sent) :
           /\ last'.sent[i].to = req[r].ctrl
           /\ last'.sent[i].env \in {"result", "error"}
           /\ last'.sent[i].id = req[r].cid

C10_Thm ==
  /\ [][C10_AnsweredOrPending]_vars
  /\ [][C10_AnsweredWhenSettled]_vars
  /\ \A r \in Req : Pending(r) ~> ~Pending(r)

\* A method the handler does not know is answered.
C10_Witness ==
  /\ Handled
  /\ connectionType[last.conn] = "mcp"
  /\ last.frame.method = "initialize"
  /\ Answered(last.conn, last.frame.id)

\* --------------------------------------------------------------------- C11
\* C11: every success or error response sent to a controller carries the id
\* of the request that caused it.  A response sent while the request's own
\* frame is handled carries that frame's id; a response sent when a forwarded
\* call settles carries the id its request was registered with, which is the
\* id of the frame that registered it and never changes while the call is
\* outstanding, whatever other requests of the same connection are in flight.
C11_SameId ==
  \A i \in 1..Len(last'.sent) :
    LET o == last'.sent[i] IN
      o.env \in {"result", "error"} =>
        \/ /\ last'.ev = "message"
           /\ connectionType'[last'.conn] = "mcp"
           /\ o.to = last'.conn
           /\ o.id = last'.frame.id
        \/ \E r \in Req :
             /\ Pending(r) /\ req'[r].state # "pending"
             /\ o.to = req[r].ctrl
             /\ o.id = req[r].cid

C11_IdKept ==
  \A r \in Req :
    /\ (~Pending(r) /\ req'[r].state = "pending")
         => /\ last'.ev = "message"
            /\ req'[r].ctrl = last'.conn
            /\ req'[r].cid = last'.frame.id
    /\ (Pending(r) /\ req'[r].state = "pending")
         => /\ req'[r].ctrl = req[r].ctrl
            /\ req'[r].cid = req[r].cid

C11_Thm == [][C11_SameId /\ C11_IdKept]_vars

\* One call has just been answered with its own id while another call of the
\* same controller, made with a different id, is still outstanding.
C11_Witness ==
  \E i \in SentIdx, r \in Req :
    /\ Sent(i).env = "result"
    /\ Pending(r)
    /\ req[r].ctrl = Sent(i).to
    /\ req[r].cid # Sent(i).id

\* --------------------------------------------------------------------- C12
\* A tools/call frame with params has just been handled on a controller.
ToolCallHandled ==
  /\ Handled
  /\ connectionType[last.conn] = "mcp"
  /\ last.frame.method = "tools/call"
  /\ last.frame.hasParams

\* C12: a tools/call naming a tool the registry does not hold is answered
\* with exactly one frame, an error of code -32602 carrying the request's id,
\* sent to the caller; nothing is forwarded to the executor and no call is
\* registered, so no tool handler has run.
C12_NotFound ==
  (ToolCallHandled /\ last.frame.name \notin ToolNames)'
    => /\ last'.sent = <<sendMCPError(last'.conn, last'.frame.id, -32602,
                                      <<"Tool not found: ", last'.frame.name>>)>>
       /\ req' = req

C12_Thm == [][C12_NotFound]_vars

\* The call of an unregistered tool is refused while an executor is current.
C12_Witness ==
  /\ ToolCallHandled
  /\ last.frame.name = "drag"
  /\ hasWs
  /\ Sent(1).code = -32602

\* --------------------------------------------------------------------- C13
\* C13: the response of a tools/call whose handler ran is decided by how the
\* handler ended.  When it fails, the response is an error of code -32603
\* whose message is "Tool execution failed: " followed by the failure's own
\* message: "Message timeout" when the timer of the forwarded call fired,
\* the no-executor message when nothing could be sent.  When it succeeds,
\* the response is a result holding the executor's payload and nothing else.
C13_Rejected ==
  \A i \in SentIdx :
    /\ last.ev = "timeout"
         => Sent(i) = sendMCPError(Sent(i).to, Sent(i).id, -32603,
                        <<"Tool execution failed: ", "Message timeout">>)
    /\ (ToolCallHandled /\ last.frame.name \in ToolNames
           /\ Sent(i).env = "error")
         => Sent(i) = sendMCPError(last.conn, last.frame.id, -32603,
                        <<"Tool execution failed: ", noConnectedTab>>)

C13_Resolved ==
  \A i \in SentIdx :
    (Handled /\ connectionType[last.conn] = "extension"
       /\ Sent(i).env \in {"result", "error"})
      => Sent(i) = sendMCPResponse(Sent(i).to, Sent(i).id,
                                   <<last.frame.payload>>)

C13_Thm == C13_Rejected /\ C13_Resolved

\* A forwarded call has just been answered with the payload of the reply.
C13_Witness ==
  /\ Handled
  /\ connectionType[last.conn] = "extension"
  /\ \E i \in SentIdx :
       /\ Sent(i).env = "result"
       /\ Sent(i).result = <<"failed">>
       /\ connectionType[Sent(i).to] = "mcp"

\* --------------------------------------------------------------------- C14
\* C14: a tools/call that arrives without params is answered with an
\* "invalid params" error, code -32602.
C14_InvalidParams ==
  (Handled /\ connectionType[last.conn] = "mcp"
     /\ last.frame.method = "tools/call" /\ ~last.frame.hasParams)
    => \E i \in SentIdx :
         /\ Sent(i).to = last.conn
         /\ Sent(i).env = "error"
         /\ Sent(i).code = -32602

\* --------------------------------------------------------------------- C15
RoutedMethods ==
  {"tools/list", "tools/call", "resources/list", "resources/read"}

\* C15: a message handled on a controller connection whose method is not one
\* of the four the server routes (a method it does not know, or no method at
\* all) is answered with exactly one frame: an error of code -32601,
\* "Method not found", carrying the id of the message, sent to its sender.
C15_Thm ==
  (Handled /\ connectionType[last.conn] = "mcp"
     /\ last.frame.method \notin RoutedMethods)
    => last.sent = <<sendMCPError(last.conn, last.frame.id, -32601,
                        <<"Method not found: ", last.frame.method>>)>>

\* A frame without a method, arriving on a controller connection after the
\* one that classified it, has been answered with the error.
C15_Witness ==
  /\ Handled
  /\ connectionType[last.conn] = "mcp"
  /\ last.frame.method = Undef
  /\ last.frame.jsonrpc = Undef
  /\ Len(last.sent) = 1
  /\ Sent(1).code = -32601

C17_ParseError ==
  (last'.ev = "message" /\ ~last'.frame.json)
    => /\ Len(last'.sent) = 1
       /\ last'.sent[1].to = last'.conn
       /\ last'.sent[1].env = "parse"
       /\ last'.sent[1].code = -32700
       /\ status[last'.conn] \in {"open", "closing"}
       /\ UNCHANGED <<status, connectionType, extensionConnections,
                      mcpConnections, ctxWs, req>>

C17_Thm == [][C17_ParseError]_vars

\* The current executor, with a call outstanding on it, has sent a frame
\* that does not parse and has been answered.
C17_Witness ==
  /\ last.ev = "message"
  /\ ~last.frame.json
  /\ ctxWs = last.conn
  /\ status[last.conn] = "open"
  /\ \E r \in Req : Pending(r) /\ req[r].ws = last.conn
  /\ Sent(1).code = -32700

\* --------------------------------------------------------------------- C18
\* Connection c closes in this step.
Closes(c) == status[c] \in {"open", "closing"} /\ status'[c] = "closed"

\* C18: when a connection closes it leaves both role sets, which otherwise
\* stay as they were; the executor slot is cleared exactly when the closing
\* connection is the one it holds, and is left alone otherwise.  The slot
\* only ever receives a connection in the step that classifies that
\* connection as executor, so a close never installs a replacement.
C18_Close ==
  \A c \in Conn :
    Closes(c)
      => /\ extensionConnections' = extensionConnections \ {c}
         /\ mcpConnections' = mcpConnections \ {c}
         /\ c \notin extensionConnections' \cup mcpConnections'
         /\ (ctxWs = c) <=> (ctxWs # NoWs /\ ctxWs' = NoWs)
         /\ (ctxWs # c) => (ctxWs' = ctxWs)

C18_NoReplacement ==
  (ctxWs' # ctxWs /\ ctxWs' # NoWs)
    => /\ last'.ev = "message"
       /\ last'.conn = ctxWs'
       /\ connectionType[ctxWs'] = "unknown"
       /\ connectionType'[ctxWs'] = "extension"

C18_Thm == [][C18_Close /\ C18_NoReplacement]_vars

\* The only executor there was has closed: it is in no set, the slot is
\* empty, and a controller is still connected.
C18_Witness ==
  /\ last.ev = "close"
  /\ connectionType[last.conn] = "extension"
  /\ \A c \in Conn \ {last.conn} : connectionType[c] # "extension"
  /\ extensionConnections = {}
  /\ ~hasWs
  /\ \E c \in Conn : c \in mcpConnections /\ status[c] = "open"

\* --------------------------------------------------------------------- C19
\* C19: after the close of any connection has been processed, an executor
\* connection that is still open is the one the slot holds.  So when A was
\* replaced by B and A's close is processed later, whatever B has sent in
\* between, the slot still holds B: the close of a connection that is no
\* longer current does not clear it.
C19_Thm ==
  last.ev = "close"
    => \A b \in Conn :
         (connectionType[b] = "extension" /\ status[b] = "open")
           => (hasWs /\ ctxWs = b)

\* The close of the replaced executor has been processed while a call
\* forwarded to its replacement is outstanding.
C19_Witness ==
  /\ last.ev = "close"
  /\ connectionType[last.conn] = "extension"
  /\ hasWs
  /\ ctxWs # last.conn
  /\ status[ctxWs] = "open"
  /\ \E r \in Req : Pending(r) /\ req[r].ws = ctxWs

\* --------------------------------------------------------------------- C20
\* The frame handled in this step is the first message of connection c that
\* parses, and its type is one of auth, capabilities, ping.
FirstExecutorMessage(c) ==
  /\ connectionType[c] = "unknown"
  /\ last'.ev = "message"
  /\ last'.conn = c
  /\ last'.frame.json
  /\ last'.frame.type \in {"auth", "capabilities", "ping"}

\* The one frame the server owes to an executor message of the given type.
ControlReply(c, type) ==
  [to |-> c, env |-> "control", id |-> Undef,
   type |-> CASE type = "auth" -> "auth_success"
              [] type = "capabilities" -> "capabilities_received"
              [] OTHER -> "pong",
   code |-> 0, message |-> <<>>, result |-> <<>>,
   timestamp |-> IF type = "ping" THEN "now" ELSE Undef]

\* C20: the first message of a connection, when its type is auth,
\* capabilities or ping, makes the connection an executor, puts it in the
\* executor set and in the slot, and is answered on that connection with
\* exactly one frame: auth_success for auth, with any token or none,
\* capabilities_received for capabilities, and a pong carrying a timestamp
\* for ping.
C20_First ==
  \A c \in Conn :
    FirstExecutorMessage(c)
      => /\ connectionType'[c] = "extension"
         /\ c \in extensionConnections'
         /\ ctxWs' = c
         /\ last'.sent = <<ControlReply(c, last'.frame.type)>>

C20_Thm == [][C20_First]_vars

\* An auth carrying a token has been answered auth_success on the connection
\* that took the slot from an earlier executor.
C20_Witness ==
  /\ Handled
  /\ last.frame.type = "auth"
  /\ last.frame.token = "wrong-token"
  /\ ctxWs = last.conn
  /\ last.sent = <<ControlReply(last.conn, "auth")>>
  /\ \E c \in Conn : c # last.conn /\ status[c] = "closing"

\* --------------------------------------------------------------------- C21
\* The frame handled in this step arrived on connection c, already an
\* executor, and its type is none of auth, capabilities, ping.
OtherExecutorMessage(c) ==
  /\ connectionType[c] = "extension"
  /\ last'.ev = "message"
  /\ last'.conn = c
  /\ last'.frame.json
  /\ last'.frame.type \notin {"auth", "capabilities", "ping"}

\* C21: a message on an executor connection whose type is none of auth,
\* capabilities and ping (a reply to a forwarded request, an unknown type, a
\* controller-style request) has nothing sent back on that connection, and
\* leaves every role, both role sets, the executor slot and every
\* connection's status as they were.
C21_Ignored ==
  \A c \in Conn :
    OtherExecutorMessage(c)
      => /\ \A i \in 1..Len(last'.sent) : last'.sent[i].to # c
         /\ UNCHANGED <<connectionType, extensionConnections,
                        mcpConnections, ctxWs, status>>

C21_Thm == [][C21_Ignored]_vars

\* A reply that carries only id and payload has settled a call: the caller
\* has its result and the executor that replied has been sent nothing.
C21_Witness ==
  /\ Handled
  /\ connectionType[last.conn] = "extension"
  /\ last.frame.type = Undef
  /\ last.frame.payload # Undef
  /\ Len(last.sent) = 1
  /\ Sent(1).env = "result"
  /\ Sent(1).to # last.conn

\* --------------------------------------------------------------------- C22
\* The frame handled in this step parses and arrived on connection c while
\* c was unclassified.
FirstMessage(c) ==
  /\ connectionType[c] = "unknown"
  /\ last'.ev = "message"
  /\ last'.conn = c
  /\ last'.frame.json

\* The frame has a method, a result or an error.
Shaped(m) == m.method # Undef \/ m.hasResult \/ m.hasError

\* C22 as stated: a first message that is not an executor keyword message
\* and has a method, a result or an error makes the connection a controller
\* and adds it to the controller set.
C22_Shaped ==
  [][\A c \in Conn :
       (FirstMessage(c) /\ last'.frame.type \notin ExtensionTypes
          /\ Shaped(last'.frame))
         => (connectionType'[c] = "mcp" /\ c \in mcpConnections')]_vars

\* C22 (amended): a first message makes the connection a controller, and
\* adds it to the controller set and not to the executor set, exactly when
\* it is not an executor keyword message, its jsonrpc is "2.0", and it has a
\* method, a result or an error; a first message whose type is an executor
\* keyword makes the connection an executor, also when it satisfies the
\* controller rule.
C22_Classified ==
  \A c \in Conn :
    FirstMessage(c)
      => /\ (connectionType'[c] = "mcp")
              <=> (/\ last'.frame.type \notin ExtensionTypes
                   /\ last'.frame.jsonrpc = "2.0"
                   /\ Shaped(last'.frame))
         /\ (connectionType'[c] = "mcp")
              <=> (c \in mcpConnections' /\ c \notin extensionConnections')
         /\ last'.frame.type \in ExtensionTypes
              => (connectionType'[c] = "extension"
                    /\ c \notin mcpConnections')

C22_Thm == [][C22_Classified]_vars

\* A frame that has an error and no method has made its connection a
\* controller.
C22_Witness ==
  /\ Handled
  /\ last.frame.hasError
  /\ connectionType[last.conn] = "mcp"
  /\ mcpConnections = {last.conn}
  /\ \A r \in Req : req[r].state = "unused"
  /\ \A c \in Conn \ {last.conn} : status[c] = "idle"

\* --------------------------------------------------------------------- C23
\* C23: a message that parses, matches neither classification rule and
\* carries an id, handled on a connection that is unclassified, is answered
\* on that connection with a parse error (code -32700) for that id.
C23_ParseErrorForId ==
  (Handled /\ connectionType[last.conn] = "unknown"
     /\ last.frame.id # Undef)
    => \E i \in SentIdx :
         /\ Sent(i).to = last.conn
         /\ Sent(i).code = -32700
         /\ Sent(i).id = last.frame.id

\* --------------------------------------------------------------------- C24
\* The frame matches one of the two classification rules.
Matching(m) ==
  \/ m.type \in {"auth", "capabilities", "ping"}
  \/ m.jsonrpc = "2.0" /\ Shaped(m)

\* C24: a connection that is unclassified is in neither role set.  Each
\* message that parses on such a connection is put to the classification
\* rules again: one that matches neither leaves the connection
\* unclassified, the sets as they were, and is not handled (nothing is
\* sent); the first one that matches classifies the connection, puts it in
\* the set of its role and is handled by that role's handler.
C24_NoSet ==
  \A c \in Conn :
    connectionType[c] = "unknown"
      => c \notin extensionConnections \cup mcpConnections

C24_Reattempt ==
  \A c \in Conn :
    FirstMessage(c)
      => IF Matching(last'.frame)
           THEN /\ connectionType'[c] \in {"extension", "mcp"}
                /\ c \in extensionConnections' \cup mcpConnections'
                /\ last'.sent # <<>>
           ELSE /\ connectionType'[c] = "unknown"
                /\ last'.sent = <<>>
                /\ UNCHANGED <<extensionConnections, mcpConnections,
                               ctxWs, status, req>>

C24_Thm == [](C24_NoSet) /\ [][C24_Reattempt]_vars

\* A connection is still unclassified after a message that parsed, while
\* another connection has been classified.
C24_Witness ==
  /\ Handled
  /\ connectionType[last.conn] = "unknown"
  /\ status[last.conn] = "open"
  /\ last.sent = <<>>
  /\ \E c \in Conn : connectionType[c] = "mcp"

\* --------------------------------------------------------------------- C25
\* C25: responses on a controller connection go out in the order of their
\* requests: a request is not answered while an earlier request of the same
\* connection is still waiting for the executor.
C25_InOrder ==
  (Handled /\ connectionType[last.conn] = "mcp"
     /\ Answered(last.conn, last.frame.id))
    => \A r \in Req : Pending(r) => req[r].ctrl # last.conn

\* --------------------------------------------------------------------- C26
\* Call r is outstanding on a connection that is no longer the current
\* executor: it has closed, or another executor took its place.
Orphaned(r) == Pending(r) /\ req[r].ws # ctxWs

\* C26 as stated: a call that is outstanding when its executor connection
\* closes or is replaced leaves the pending state only by the rejection of
\* its own timer.
C26_OnlyTimeout ==
  [][\A r \in Req :
       (Orphaned(r) /\ req'[r].state # "pending")
         => (last'.ev = "timeout" /\ req'[r].state = "rejected")]_vars

\* C26 (amended): the close of its executor connection, and the
\* classification of a new executor, leave an outstanding call as it is;
\* no message on another connection changes it, so a new executor cannot
\* resolve it; once its connection has closed the only change left to it
\* is the rejection by its own timer; while its replaced connection has not
\* closed, a reply that still arrives on that connection can resolve it;
\* and it does not stay pending: it is settled in the end, by rejection
\* when its connection has closed.
C26_NotCancelled ==
  \A r \in Req :
    Pending(r)
      => /\ (last'.ev = "close") => req'[r] = req[r]
         /\ (last'.ev = "message" /\ last'.conn # req[r].ws)
              => req'[r] = req[r]
         /\ (status[req[r].ws] = "closed" /\ req'[r] # req[r])
              => (last'.ev = "timeout" /\ req'[r].state = "rejected")
         /\ (Orphaned(r) /\ req'[r].state = "resolved")
              => /\ last'.ev = "message"
                 /\ last'.conn = req[r].ws
                 /\ status[req[r].ws] = "closing"

C26_AgesOut ==
  \A r \in Req :
    /\ Orphaned(r) ~> Settled(r)
    /\ (Pending(r) /\ status[req[r].ws] = "closed")
         ~> (req[r].state = "rejected")

C26_Thm == [][C26_NotCancelled]_vars /\ C26_AgesOut

\* The timer has rejected a call whose executor connection had closed,
\* while another executor is current.
C26_Witness ==
  /\ last.ev = "timeout"
  /\ \E r \in Req :
       /\ req[r].state = "rejected"
       /\ req[r].ws # NoWs
       /\ status[req[r].ws] = "closed"
  /\ hasWs

\* --------------------------------------------------------------------- C27
\* C27: the executor slot and the two role sets change only in a step that
\* classifies a connection or in a close.  A message on a connection that
\* already has a role (an executor control message, a reply, tools/list,
\* tools/call, resources/*, an unknown method), a frame that classifies
\* nothing, and the firing of a timer leave all three as they were.
C27_RouterOnly ==
  (ctxWs' # ctxWs \/ extensionConnections' # extensionConnections
     \/ mcpConnections' # mcpConnections)
    => \/ last'.ev = "close"
       \/ \E c \in Conn : FirstMessage(c) /\ connectionType'[c] # "unknown"

C27_Thm == [][C27_RouterOnly]_vars

\* A replaced executor, not yet closed, has had a ping answered; the slot
\* holds its replacement.
C27_Witness ==
  /\ Handled
  /\ last.frame.type = "ping"
  /\ status[last.conn] = "closing"
  /\ last.sent = <<ControlReply(last.conn, "ping")>>
  /\ hasWs
  /\ ctxWs # last.conn

\* --------------------------------------------------------------------- C28
\* This step is a failure on connection c: its close, an error event on it,
\* a frame on it that does not parse, or a message on it answered with an
\* error because the handler failed.
Failure(c) ==
  /\ last'.conn = c
  /\ \/ last'.ev \in {"close", "error"}
     \/ /\ last'.ev = "message"
        /\ \/ ~last'.frame.json
           \/ \E i \in 1..Len(last'.sent) :
                last'.sent[i].to = c /\ last'.sent[i].env = "error"

\* C28: a failure on one connection leaves every other connection with the
\* status, the role and the set membership it had, and leaves the executor
\* slot alone unless the step is the close of the connection the slot
\* holds, which empties it.  The failure of a forwarded call by its timer
\* changes no connection and not the slot.
C28_Isolated ==
  /\ \A c \in Conn :
       Failure(c)
         => /\ \A d \in Conn \ {c} :
                 /\ status'[d] = status[d]
                 /\ connectionType'[d] = connectionType[d]
                 /\ (d \in extensionConnections') <=> (d \in extensionConnections)
                 /\ (d \in mcpConnections') <=> (d \in mcpConnections)
            /\ (ctxWs' # ctxWs)
                 => (last'.ev = "close" /\ ctxWs = c /\ ctxWs' = NoWs)
  /\ (last'.ev = "timeout")
       => UNCHANGED <<status, connectionType, extensionConnections,
                      mcpConnections, ctxWs>>

C28_Thm == [][C28_Isolated]_vars

\* An error event has been raised on a controller connection while an
\* executor is current and a call is outstanding.
C28_Witness ==
  /\ last.ev = "error"
  /\ connectionType[last.conn] = "mcp"
  /\ status[last.conn] = "open"
  /\ hasWs
  /\ status[ctxWs] = "open"
  /\ \E r \in Req : Pending(r)

\* --------------------------------------------------------------------- C29
\* C29: two calls that are outstanding at the same time on one executor
\* connection have different correlation ids.
C29_DistinctIds ==
  \A r, q \in Req :
    (r # q /\ Pending(r) /\ Pending(q) /\ req[r].ws = req[q].ws)
      => req[r].mid # req[q].mid

\* --------------------------------------------------------------------- C30
\* C30: no connection is in both role sets, a connection without a role is
\* in neither, and the total getConnectionStats reports, the sum of the two
\* sizes, counts every connection that has a role and has not closed
\* exactly once.
C30_Thm ==
  /\ extensionConnections \cap mcpConnections = {}
  /\ \A c \in Conn :
       connectionType[c] = "unknown"
         => c \notin extensionConnections \cup mcpConnections
  /\ getConnectionStats.totalConnections
       = getConnectionStats.extensionConnections
           + getConnectionStats.mcpConnections
  /\ getConnectionStats.totalConnections
       = Cardinality({c \in Conn : /\ connectionType[c] # "unknown"
                                    /\ status[c] \in {"open", "closing"}})

\* A frame that satisfies both rules has classified its connection, which
\* is counted once, next to a controller and an executor being replaced.
C30_Witness ==
  /\ Handled
  /\ last.frame.type = "ping"
  /\ last.frame.jsonrpc = "2.0"
  /\ ctxWs = last.conn
  /\ getConnectionStats.extensionConnections = 2
  /\ getConnectionStats.mcpConnections = 1
  /\ getConnectionStats.totalConnections = 3

\* --------------------------------------------------------------------- C31
\* C31: every envelope the server sends (success response, error response,
\* control reply, forwarded request) is, after JSON.stringify and
\* JSON.parse, an object with the same properties and the same values,
\* also when its id or its result is undefined.
C31_RoundTrip ==
  \A i \in SentIdx :
    parse(stringify(Envelope(Sent(i)))) = Envelope(Sent(i))

\* --------------------------------------------------------------------- C33
\* C33: when a connection's first message is {type: 'ping'}, a reply is sent
\* to it only if another connection is an executor that has not closed, and
\* the executor slot is what it was before the probe.
C33_Probe ==
  [][\A c \in Conn :
       (FirstMessage(c) /\ last'.frame = Ping)
         => /\ (\E i \in 1..Len(last'.sent) : last'.sent[i].to = c)
                 => \E d \in Conn \ {c} :
                      /\ connectionType[d] = "extension"
                      /\ status[d] \in {"open", "closing"}
            /\ ctxWs' = ctxWs]_vars

\* --------------------------------------------------------------------- C36
\* C36: whenever the executor slot holds a connection, that connection is
\* in the executor set and not in the controller set, its role is executor,
\* and its close has not been processed.
C36_Thm ==
  hasWs
    => /\ ctxWs \in extensionConnections
       /\ ctxWs \notin mcpConnections
       /\ connectionType[ctxWs] = "extension"
       /\ status[ctxWs] \in {"open", "closing"}

\* The slot holds a connection just after the close of an executor it had
\* replaced has been processed.
C36_Witness ==
  /\ hasWs
  /\ last.ev = "close"
  /\ last.conn # ctxWs
  /\ connectionType[last.conn] = "extension"
  /\ status[ctxWs] = "open"

Openers == {m \in ExtFrames : m.type \in {"auth", "capabilities", "ping"}}

\* What the step that handled frame m on connection c would have left had the
\* frame been n instead.
SameRoles(c, n) ==
  /\ connectionType' = [connectionType EXCEPT ![c] = ClassifiedType(c, n)]
  /\ extensionConnections' =
       IF BecomesExtension(c, n) THEN extensionConnections \cup {c}
                                 ELSE extensionConnections
  /\ mcpConnections' =
       IF BecomesMCP(c, n) THEN mcpConnections \cup {c} ELSE mcpConnections
  /\ status' = ReplacedStatus(c, n)
  /\ ctxWs' = InstalledWs(c, n)

SameReplies(c, n) ==
  last'.sent = handleExtensionMessage(c, n)
                 \o Continuations(req, Listened(c, n), <<n.payload>>, 1)

ExtensionIsExecutor(c) ==
  /\ ctxWs = c
  /\ status[c] = "open"
  /\ connectionStatus
  /\ connectedTabId # NoTab
  /\ extWs # NoSock
  /\ sock[extWs].state = "open"
  /\ sock[extWs].peer = c

\* C32: with the extension connected as executor, a call the server has
\* forwarded to it completes its round trip: the pending request is not
\* ended by its timeout while the extension is connected.
C32_RoundTrip ==
  [][\A r \in Req :
       (/\ req[r].state = "pending"
        /\ req'[r] # req[r]
        /\ last'.ev = "timeout")
         => ~ExtensionIsExecutor(req[r].ws)]_vars

\* --------------------------------------------------------------------- C34
\* C34: the reconnection counter never exceeds maxReconnectAttempts, and a
\* socket that opens resets it to 0.
C34_Attempts ==
  [][/\ reconnectAttempts' <= maxReconnectAttempts
     /\ (\E s \in Sock : sock[s].state = "connecting"
                           /\ sock'[s].state = "open")
          => reconnectAttempts' = 0]_vars

\* --------------------------------------------------------------------- C35
\* C35: on every socket of the extension auth is followed by capabilities,
\* the connection of a socket is never classified as controller, and once
\* the socket is open and the server has handled all it sent, the connection
\* is classified as executor.
C35_Classified ==
  \A s \in Sock :
    /\ \A i \in 1..Len(sock[s].out) :
         sock[s].out[i].type = "auth"
           => /\ i < Len(sock[s].out)
              /\ sock[s].out[i + 1].type = "capabilities"
    /\ sock[s].peer # NoWs => connectionType[sock[s].peer] # "mcp"
    /\ (sock[s].state = "open" /\ sock[s].out = <<>>)
         => connectionType[sock[s].peer] = "extension"

\* --------------------------------------------------------------------- C37
\* C37: from disconnect() until connect is requested again (the connected
\* tab stays unset) the extension creates no socket and connectionStatus
\* stays false.
C37_StaysDisconnected ==
  [][(connectedTabId = NoTab /\ connectedTabId' = NoTab)
       => /\ ~connectionStatus'
          /\ \A s \in Sock :
               sock'[s].state = "connecting" => sock[s].state = "connecting"]_vars

\* --------------------------------------------------------------------- C38
\* C38: connectionStatus is true exactly when the socket in this.ws is open,
\* and at most one socket of the extension is open.
C38_OneSocket ==
  /\ connectionStatus <=> (extWs # NoSock /\ sock[extWs].state = "open")
  /\ Cardinality({s \in Sock : sock[s].state = "open"}) <= 1

====
